---- MODULE Spec2Model ----
(***************************************************************************)
(* Storefront page: the Index component (cart state: cartItems and the     *)
(* three handlers addToCart, removeFromCart, updateQuantity, the badge     *)
(* count) and the ProductGrid component (mockProducts, the category        *)
(* filter, the favorites set).                                             *)
(*                                                                         *)
(* A product is modelled by its id and category, the two fields the logic  *)
(* reads; the display fields (name, price, image, rating, ...) are copied  *)
(* along by the spreads in the code and never inspected.                   *)
(*                                                                         *)
(* Every setCartItems call of the code passes an updater function.  The    *)
(* model keeps React's update queue for cartItems explicit: a handler      *)
(* produces an update, and the queue is processed in order at the next     *)
(* render.  Spec renders after every event (one click, one render);        *)
(* SpecBatch lets several events queue up before one render.               *)
(***************************************************************************)
EXTENDS Integers, Sequences, FiniteSets, TLC

\* Bounds of the model.
\* Only the first MaxProducts products of the catalog are clicked on.
MaxProducts == 2
\* Events that would take the sum of the cart's quantities above MaxTotal
\* are not issued.
MaxTotal == 3
\* At most MaxBatch updates queue up before a render (SpecBatch).
MaxBatch == 2

VARIABLES
    cartItems,          \* Index: useState<any[]>([]), as of the last render
    queue,              \* React's pending updates of cartItems
    favorites,          \* ProductGrid: useState<Set<string>>(new Set())
    selectedCategory,   \* ProductGrid: useState<string>('All')
    expected,           \* history: the operations issued so far, applied one at a time
    last,               \* history: the last event handled
    prev                \* history: the state that event was handled in

vars == <<cartItems, queue, favorites, selectedCategory, expected, last, prev>>

----------------------------------------------------------------------------
\* ProductGrid: the static catalog.

mockProducts ==
    << [id |-> "1", category |-> "Electronics"],
       [id |-> "2", category |-> "Fashion"],
       [id |-> "3", category |-> "Wearables"],
       [id |-> "4", category |-> "Accessories"],
       [id |-> "5", category |-> "Food"],
       [id |-> "6", category |-> "Electronics"],
       [id |-> "7", category |-> "Home"],
       [id |-> "8", category |-> "Photography"] >>

\* ['All', ...Array.from(new Set(mockProducts.map(p => p.category)))]
\* (a set here: the order of the buttons plays no part)
categories ==
    {"All"} \cup {mockProducts[i].category : i \in 1..Len(mockProducts)}

\* mockProducts.filter(p => p.category === category)
FilterByCategory(products, category) ==
    LET Matches(p) == p.category = category
    IN  SelectSeq(products, Matches)

\* faulty variant: the matching products in reverse order
FilteredReversed(category) ==
    IF category = "All"
    THEN mockProducts
    ELSE LET f == FilterByCategory(mockProducts, category)
         IN  [i \in 1..Len(f) |-> f[Len(f) + 1 - i]]

\* selectedCategory === 'All' ? mockProducts : mockProducts.filter(...)
FilteredFor(category) ==
    IF category = "All"
    THEN mockProducts
    ELSE FilterByCategory(mockProducts, category)

filteredProducts == FilteredFor(selectedCategory)

\* faulty variant: never removes
ToggleAlwaysAdds(prevFavorites, productId) ==
    prevFavorites \cup {productId}

\* the updater toggleFavorite passes to setFavorites
toggleFavoriteUpdater(prevFavorites, productId) ==
    IF productId \in prevFavorites
    THEN prevFavorites \ {productId}
    ELSE prevFavorites \cup {productId}

----------------------------------------------------------------------------
\* Index: the cart.

\* { ...product, quantity }
LineItem(product, quantity) ==
    [id |-> product.id, category |-> product.category, quantity |-> quantity]

\* prev.find(item => item.id === productId) is not undefined
Exists(items, productId) ==
    \E i \in 1..Len(items) : items[i].id = productId

\* faulty variant: no lookup of an existing line item
AddAlwaysAppends(items, product) ==
    Append(items, LineItem(product, 1))

\* faulty variant: the incremented line item moves to the end
AddMovesToEnd(items, product) ==
    IF Exists(items, product.id)
    THEN LET Other(item) == item.id # product.id
             i == CHOOSE k \in 1..Len(items) : items[k].id = product.id
         IN  Append(SelectSeq(items, Other),
                    [items[i] EXCEPT !.quantity = @ + 1])
    ELSE Append(items, LineItem(product, 1))

\* the updater addToCart passes to setCartItems
addToCartUpdater(items, product) ==
    IF Exists(items, product.id)
    THEN [i \in 1..Len(items) |->
            IF items[i].id = product.id
            THEN [items[i] EXCEPT !.quantity = @ + 1]
            ELSE items[i]]
    ELSE Append(items, LineItem(product, 1))

\* the updater removeFromCart passes to setCartItems
removeFromCartUpdater(items, productId) ==
    LET Keep(item) == item.id # productId
    IN  SelectSeq(items, Keep)

\* faulty variant: adds the argument to the quantity
UpdateAddsQuantity(items, productId, quantity) ==
    [i \in 1..Len(items) |->
        IF items[i].id = productId
        THEN [items[i] EXCEPT !.quantity = @ + quantity]
        ELSE items[i]]

\* faulty variant: creates the line item when the id is absent
UpdateUpserts(items, productId, quantity) ==
    IF Exists(items, productId)
    THEN [i \in 1..Len(items) |->
            IF items[i].id = productId
            THEN [items[i] EXCEPT !.quantity = quantity]
            ELSE items[i]]
    ELSE Append(items, [id |-> productId, category |-> "", quantity |-> quantity])

\* the updater updateQuantity passes to setCartItems
updateQuantityUpdater(items, productId, quantity) ==
    [i \in 1..Len(items) |->
        IF items[i].id = productId
        THEN [items[i] EXCEPT !.quantity = quantity]
        ELSE items[i]]

\* What a handler hands to setCartItems: an updater function of the
\* previous state ("fn"), or a plain value ("value").
FnUpdate(name, product, productId, quantity) ==
    [kind |-> "fn", fn |-> name, product |-> product,
     productId |-> productId, quantity |-> quantity, value |-> <<>>]

ValueUpdate(value) ==
    [kind |-> "value", fn |-> "", product |-> mockProducts[1],
     productId |-> "", quantity |-> 0, value |-> value]

\* React applies one queued update to the state: a function is called with
\* the state so far, a value replaces it.
ApplyUpdate(state, update) ==
    IF update.kind = "value"
    THEN update.value
    ELSE CASE update.fn = "addToCart" ->
                addToCartUpdater(state, update.product)
           [] update.fn = "removeFromCart" ->
                removeFromCartUpdater(state, update.productId)
           [] update.fn = "updateQuantity" ->
                updateQuantityUpdater(state, update.productId, update.quantity)

\* React processes the queue in the order the updates were enqueued.
RECURSIVE ProcessQueue(_, _)
ProcessQueue(state, updates) ==
    IF updates = <<>>
    THEN state
    ELSE ProcessQueue(ApplyUpdate(state, Head(updates)), Tail(updates))

\* faulty variant: setCartItems([...]) computed from the rendered cartItems
AddToCartFromSnapshot(product) ==
    ValueUpdate(addToCartUpdater(cartItems, product))

\* addToCart: setCartItems(prev => ...)
addToCart(product) ==
    FnUpdate("addToCart", product, product.id, 0)

\* removeFromCart: setCartItems(prev => prev.filter(...))
removeFromCart(productId) ==
    FnUpdate("removeFromCart", mockProducts[1], productId, 0)

\* faulty variant: a non-positive quantity is stored as 1
UpdateQuantityClampsToOne(productId, quantity) ==
    IF quantity <= 0
    THEN FnUpdate("updateQuantity", mockProducts[1], productId, 1)
    ELSE FnUpdate("updateQuantity", mockProducts[1], productId, quantity)

\* faulty variant: quantity < 0 instead of quantity <= 0
UpdateQuantityRemovesBelowZero(productId, quantity) ==
    IF quantity < 0
    THEN removeFromCart(productId)
    ELSE FnUpdate("updateQuantity", mockProducts[1], productId, quantity)

\* updateQuantity: quantity <= 0 is handed to removeFromCart
updateQuantity(productId, quantity) ==
    IF quantity <= 0
    THEN removeFromCart(productId)
    ELSE FnUpdate("updateQuantity", mockProducts[1], productId, quantity)

\* faulty variant of the badge count: the number of line items
CountLineItems(items) ==
    Len(items)

\* items.reduce((sum, item) => sum + item.quantity, 0)
RECURSIVE ReduceQuantity(_, _)
ReduceQuantity(sum, items) ==
    IF items = <<>>
    THEN sum
    ELSE ReduceQuantity(sum + Head(items).quantity, Tail(items))

TotalQuantity(items) ==
    ReduceQuantity(0, items)

cartItemsCountOfLines == CountLineItems(cartItems)

\* the cartItemsCount prop handed to Header
cartItemsCount == TotalQuantity(cartItems)

----------------------------------------------------------------------------
\* Events.

\* the products whose buttons are clicked
Clicked == {mockProducts[i] : i \in 1..MaxProducts}
ClickedIds == {p.id : p \in Clicked}
\* the quantity arguments of updateQuantity: negative, zero, positive
Quantities == (0 - 1)..MaxTotal

Snapshot ==
    [cartItems |-> cartItems, queue |-> queue, favorites |-> favorites,
     selectedCategory |-> selectedCategory]

Event(op, id, quantity) ==
    [op |-> op, id |-> id, quantity |-> quantity]

Init ==
    /\ cartItems = <<>>
    /\ queue = <<>>
    /\ favorites = {}
    /\ selectedCategory = "All"
    /\ expected = <<>>
    /\ last = Event("init", "", 0)
    /\ prev = [cartItems |-> <<>>, queue |-> <<>>, favorites |-> {},
               selectedCategory |-> "All"]

\* The cart operation an event stands for, applied to a cart directly:
\* what `expected` accumulates, one operation at a time, in the order issued.
OneAtATime(items, event) ==
    CASE event.op = "addToCart" ->
            LET product == CHOOSE p \in Clicked : p.id = event.id
            IN  addToCartUpdater(items, product)
      [] event.op = "removeFromCart" ->
            removeFromCartUpdater(items, event.id)
      [] event.op = "updateQuantity" ->
            IF event.quantity <= 0
            THEN removeFromCartUpdater(items, event.id)
            ELSE updateQuantityUpdater(items, event.id, event.quantity)

\* The events the model issues: those that keep the sum of the quantities
\* within MaxTotal.
Issuable(event) ==
    TotalQuantity(OneAtATime(expected, event)) <= MaxTotal

\* One cart event followed by its render: the update is enqueued and the
\* queue, which holds nothing else, is processed.
Dispatch(update, event) ==
    /\ cartItems' = ProcessQueue(cartItems, Append(queue, update))
    /\ queue' = <<>>
    /\ expected' = OneAtATime(expected, event)
    /\ last' = event
    /\ prev' = Snapshot
    /\ UNCHANGED <<favorites, selectedCategory>>

\* ProductGrid.handleAddToCart, from the "Add to Cart" button of a product
\* of the filtered view (the toast is not modelled)
HandleAddToCart ==
    \E i \in 1..Len(filteredProducts) :
        /\ filteredProducts[i] \in Clicked
        /\ Issuable(Event("addToCart", filteredProducts[i].id, 0))
        /\ Dispatch(addToCart(filteredProducts[i]),
                    Event("addToCart", filteredProducts[i].id, 0))

\* CartSidebar's onRemoveItem
OnRemoveItem ==
    \E productId \in ClickedIds :
        /\ Issuable(Event("removeFromCart", productId, 0))
        /\ Dispatch(removeFromCart(productId),
                    Event("removeFromCart", productId, 0))

\* CartSidebar's onUpdateQuantity
OnUpdateQuantity ==
    \E productId \in ClickedIds, quantity \in Quantities :
        /\ Issuable(Event("updateQuantity", productId, quantity))
        /\ Dispatch(updateQuantity(productId, quantity),
                    Event("updateQuantity", productId, quantity))

\* the heart button: toggleFavorite(product.id)
ToggleFavorite ==
    \E i \in 1..Len(filteredProducts) :
        /\ filteredProducts[i] \in Clicked
        /\ favorites' = toggleFavoriteUpdater(favorites, filteredProducts[i].id)
        /\ last' = Event("toggleFavorite", filteredProducts[i].id, 0)
        /\ prev' = Snapshot
        /\ UNCHANGED <<cartItems, queue, selectedCategory, expected>>

\* a category button: setSelectedCategory(category)
SelectCategory ==
    \E category \in categories :
        /\ selectedCategory' = category
        /\ last' = Event("selectCategory", category, 0)
        /\ prev' = Snapshot
        /\ UNCHANGED <<cartItems, queue, favorites, expected>>

Next ==
    \/ HandleAddToCart
    \/ OnRemoveItem
    \/ OnUpdateQuantity
    \/ ToggleFavorite
    \/ SelectCategory

Spec == Init /\ [][Next]_vars

----------------------------------------------------------------------------
\* Several events before one render.

\* a handler runs: its update joins the queue, cartItems is not yet changed
Enqueue(update, event) ==
    /\ queue' = Append(queue, update)
    /\ expected' = OneAtATime(expected, event)
    /\ last' = event
    /\ prev' = Snapshot
    /\ UNCHANGED <<cartItems, favorites, selectedCategory>>

BatchAddToCart ==
    \E i \in 1..Len(filteredProducts) :
        /\ Len(queue) < MaxBatch
        /\ filteredProducts[i] \in Clicked
        /\ Issuable(Event("addToCart", filteredProducts[i].id, 0))
        /\ Enqueue(addToCart(filteredProducts[i]),
                   Event("addToCart", filteredProducts[i].id, 0))

BatchRemoveItem ==
    \E productId \in ClickedIds :
        /\ Len(queue) < MaxBatch
        /\ Issuable(Event("removeFromCart", productId, 0))
        /\ Enqueue(removeFromCart(productId),
                   Event("removeFromCart", productId, 0))

BatchUpdateQuantity ==
    \E productId \in ClickedIds, quantity \in Quantities :
        /\ Len(queue) < MaxBatch
        /\ Issuable(Event("updateQuantity", productId, quantity))
        /\ Enqueue(updateQuantity(productId, quantity),
                   Event("updateQuantity", productId, quantity))

\* the component re-renders: useState processes the pending updates
Render ==
    /\ queue # <<>>
    /\ cartItems' = ProcessQueue(cartItems, queue)
    /\ queue' = <<>>
    /\ last' = Event("render", "", 0)
    /\ prev' = Snapshot
    /\ UNCHANGED <<favorites, selectedCategory, expected>>

NextBatch ==
    \/ BatchAddToCart
    \/ BatchRemoveItem
    \/ BatchUpdateQuantity
    \/ Render

SpecBatch == Init /\ [][NextBatch]_vars

----------------------------------------------------------------------------
\* Properties.

Ids(items) == {items[i].id : i \in 1..Len(items)}

CartOps == {"addToCart", "removeFromCart", "updateQuantity"}

\* C1: the cart list never holds two line items with the same product id.
UniqueProductIds ==
    \A i, j \in 1..Len(cartItems) :
        i # j => cartItems[i].id # cartItems[j].id

\* the same product added to a cart that already holds it, beside another
UniqueProductIdsWitness ==
    /\ last.op = "addToCart"
    /\ last.id \in Ids(prev.cartItems)
    /\ Len(cartItems) = 2

\* C2: every line item in the cart has an integer quantity >= 1, whatever
\* integer quantities (negative, zero, positive) updateQuantity was given.
PositiveQuantities ==
    \A i \in 1..Len(cartItems) :
        /\ cartItems[i].quantity \in Int
        /\ cartItems[i].quantity >= 1

\* updateQuantity with a non-positive quantity on a product in the cart,
\* another line item staying behind
PositiveQuantitiesWitness ==
    /\ last.op = "updateQuantity"
    /\ last.quantity <= 0
    /\ last.id \in Ids(prev.cartItems)
    /\ cartItems # <<>>

\* C3: addToCart(product) on a cart that holds product.id gives the same
\* list with that item's quantity one higher, at the same position, the
\* other items and the length unchanged; on a cart that does not, it gives
\* the old list with one new item of quantity 1 appended at the end.
AddToCartResult ==
    last.op = "addToCart" =>
        LET old == prev.cartItems
        IN  IF last.id \in Ids(old)
            THEN /\ Len(cartItems) = Len(old)
                 /\ \A i \in 1..Len(old) :
                        /\ cartItems[i].id = old[i].id
                        /\ cartItems[i].category = old[i].category
                        /\ cartItems[i].quantity =
                              IF old[i].id = last.id
                              THEN old[i].quantity + 1
                              ELSE old[i].quantity
            ELSE /\ Len(cartItems) = Len(old) + 1
                 /\ SubSeq(cartItems, 1, Len(old)) = old
                 /\ cartItems[Len(cartItems)].id = last.id
                 /\ cartItems[Len(cartItems)].quantity = 1

\* the first of two line items is added again: it stays first, with 2
AddToCartResultWitness ==
    /\ last.op = "addToCart"
    /\ Len(prev.cartItems) = 2
    /\ prev.cartItems[1].id = last.id
    /\ prev.cartItems[1].quantity = 1
    /\ cartItems[1].id = last.id
    /\ cartItems[1].quantity = 2

\* C4: updateQuantity(productId, q) with q <= 0 gives the cart that
\* removeFromCart(productId) gives, and that cart holds no line item with
\* productId.
NonPositiveQuantityRemoves ==
    (last.op = "updateQuantity" /\ last.quantity <= 0) =>
        /\ cartItems = ProcessQueue(prev.cartItems, <<removeFromCart(last.id)>>)
        /\ last.id \notin Ids(cartItems)
        /\ \A i \in 1..Len(prev.cartItems) :
                prev.cartItems[i].id # last.id =>
                    \E j \in 1..Len(cartItems) : cartItems[j] = prev.cartItems[i]

\* add "1", add "1", updateQuantity("1", 0): the empty cart
NonPositiveQuantityRemovesWitness ==
    /\ last = Event("updateQuantity", "1", 0)
    /\ prev.cartItems = <<LineItem(mockProducts[1], 2)>>
    /\ cartItems = <<>>

\* C5: removeFromCart(productId) and updateQuantity(productId, q), for any
\* q, leave the cart list as it was when productId is not in the cart.
AbsentIdIsNoOp ==
    (last.op \in {"removeFromCart", "updateQuantity"}
        /\ last.id \notin Ids(prev.cartItems)) =>
        cartItems = prev.cartItems

\* updateQuantity with a positive quantity for a product not in a
\* non-empty cart
AbsentIdIsNoOpWitness ==
    /\ last.op = "updateQuantity"
    /\ last.quantity > 0
    /\ last.id \notin Ids(prev.cartItems)
    /\ prev.cartItems # <<>>

\* C6: updateQuantity(productId, q) with q > 0 and productId in the cart
\* sets that line item's quantity to q and leaves the length, the order of
\* the ids and every other line item as they were.
UpdateQuantityOverwrites ==
    (last.op = "updateQuantity" /\ last.quantity > 0
        /\ last.id \in Ids(prev.cartItems)) =>
        LET old == prev.cartItems
        IN  /\ Len(cartItems) = Len(old)
            /\ \A i \in 1..Len(old) :
                    IF old[i].id = last.id
                    THEN cartItems[i] = [old[i] EXCEPT !.quantity = last.quantity]
                    ELSE cartItems[i] = old[i]

\* a line item of quantity 1, beside another, is set to 2
UpdateQuantityOverwritesWitness ==
    /\ last.op = "updateQuantity"
    /\ last.quantity = 2
    /\ Len(prev.cartItems) = 2
    /\ \E i \in 1..2 :
          /\ prev.cartItems[i].id = last.id
          /\ prev.cartItems[i].quantity = 1
          /\ cartItems[i].quantity = 2

\* one unit per piece in the cart: <<i, k>> is the k-th piece of line item i
Units(items) ==
    UNION {{<<i, k>> : k \in 1..items[i].quantity} : i \in 1..Len(items)}

\* C7: the badge count equals the sum of the quantities of the line items
\* in the cart, and is 0 exactly when the cart is empty.
BadgeCountIsSum ==
    /\ cartItemsCount = Cardinality(Units(cartItems))
    /\ cartItemsCount = 0 <=> cartItems = <<>>
    /\ last.op = "addToCart" =>
          cartItemsCount = Cardinality(Units(prev.cartItems)) + 1
    /\ (last.op = "removeFromCart" /\ last.id \notin Ids(prev.cartItems)) =>
          cartItemsCount = Cardinality(Units(prev.cartItems))

\* two line items, one of them with quantity 2: the badge shows 3
BadgeCountIsSumWitness ==
    /\ last.op \in CartOps
    /\ Len(cartItems) = 2
    /\ cartItems[1].quantity = 2
    /\ cartItemsCount = 3

\* the position of a product in the static list
IndexOf(product) ==
    CHOOSE i \in 1..Len(mockProducts) : mockProducts[i] = product

\* C8: with "All" selected the filtered view is the static list; with a
\* category selected it holds exactly the products of that category, each
\* once, in the order of the static list.
FilteredViewCorrect ==
    IF selectedCategory = "All"
    THEN filteredProducts = mockProducts
    ELSE /\ \A i \in 1..Len(filteredProducts) :
                /\ filteredProducts[i].category = selectedCategory
                /\ \E k \in 1..Len(mockProducts) :
                        mockProducts[k] = filteredProducts[i]
         /\ \A k \in 1..Len(mockProducts) :
                mockProducts[k].category = selectedCategory =>
                    \E i \in 1..Len(filteredProducts) :
                        filteredProducts[i] = mockProducts[k]
         /\ \A i, j \in 1..Len(filteredProducts) :
                i < j => IndexOf(filteredProducts[i]) < IndexOf(filteredProducts[j])

\* "Electronics" selected: products "1" and "6", in that order
FilteredViewCorrectWitness ==
    /\ last.op = "selectCategory"
    /\ selectedCategory = "Electronics"
    /\ Len(filteredProducts) = 2
    /\ filteredProducts[1].id = "1"
    /\ filteredProducts[2].id = "6"

\* C9: toggleFavorite(productId) flips the membership of productId in
\* favorites, leaves the membership of every other id, the cart list and
\* the selected category as they were; toggling twice restores the set.
ToggleFavoriteFlips ==
    /\ last.op = "toggleFavorite" =>
          /\ last.id \in favorites <=> last.id \notin prev.favorites
          /\ favorites \ {last.id} = prev.favorites \ {last.id}
          /\ cartItems = prev.cartItems
          /\ selectedCategory = prev.selectedCategory
    /\ \A productId \in ClickedIds :
          toggleFavoriteUpdater(toggleFavoriteUpdater(favorites, productId),
                                productId) = favorites

\* a favorited product is toggled off while another stays favorited and
\* the cart is not empty
ToggleFavoriteFlipsWitness ==
    /\ last.op = "toggleFavorite"
    /\ last.id \in prev.favorites
    /\ last.id \notin favorites
    /\ favorites # {}
    /\ cartItems # <<>>

\* C10: the cart after the queued updates are processed equals the cart
\* the operations give applied one at a time in the order issued: in every
\* state, processing what is pending yields `expected`, and after a render
\* cartItems is `expected`.
NoLostUpdate ==
    /\ ProcessQueue(cartItems, queue) = expected
    /\ last.op = "render" => cartItems = expected

\* two addToCart of product "1" in one batch, rendered: quantity 2
NoLostUpdateWitness ==
    /\ last.op = "render"
    /\ prev.cartItems = <<>>
    /\ prev.queue = <<addToCart(mockProducts[1]), addToCart(mockProducts[1])>>
    /\ cartItems = <<LineItem(mockProducts[1], 2)>>

====
